---- MODULE Spec2Model ----
(***************************************************************************)
(* Model of the incentive/company matching pipeline:                       *)
(*   MatchingService.match_companies_for_incentive  (matchOne)             *)
(*   MatchingService._llm_rank_candidates           (the ranker)           *)
(*   MatchingService.save_matches_to_database       (persist)              *)
(*   the matches table and its constraints          (MatchStore)           *)
(*                                                                         *)
(* Scores are kept in hundredths (3.30 is 330), so the weights .40/.35/.25 *)
(* are 40/35/25 and the clamp [1.0, 5.0] is [100, 500].  IEEE-754 rounding *)
(* of the float arithmetic (below 1e-15) is not represented.               *)
(***************************************************************************)
EXTENDS Integers, Sequences, FiniteSets, TLC

(***************************************************************************)
(* Program constants                                                       *)
(***************************************************************************)
TopN == 5                 \* top_n=5 passed by match_companies_for_incentive
TopK == 20                \* top_k_candidates default
WeightStrategic == 40     \* adequacao_score * 0.40
WeightQuality == 35       \* qualidade_score * 0.35
WeightExecution == 25     \* capacidade_score * 0.25
DefaultComponent == 3     \* .get('score', 3)
ScoreFloor == 100         \* max(1.0, ...)
ScoreCeil == 500          \* min(5.0, ...)
FallbackScore == 300      \* Decimal("3.0")
DbScoreMin == 0           \* CHECK (score >= 0 ...
DbScoreMax == 500         \*        ... AND score <= 5)
DbRankMin == 1            \* CHECK (rank_position >= 1 ...
DbRankMax == 5            \*        ... AND rank_position <= 5)
PromptPrice == 10         \* gpt-5-mini, $0.10 per 1M prompt tokens
CompletionPrice == 40     \* gpt-5-mini, $0.40 per 1M completion tokens
RequestDelay == 6         \* AI_REQUEST_DELAY_SECONDS = 6.0

(***************************************************************************)
(* Bounds of the model                                                     *)
(***************************************************************************)
MaxCand == 6              \* companies with an embedding
MaxEntries == 6           \* entries of a scoring response (index-only arrays)
MaxCompanyNumber == 1     \* largest company_number in index-only arrays
MaxComponent == 6         \* component scores range over 0..MaxComponent
MaxRuns == 2              \* matching requests served in the store model
MaxFailures == 1          \* write errors injected in the store model

Incentives == {1, 2}      \* ids the incentives table may hold
AbsentIncentive == 3      \* an id that is never stored
MaxCeiling == 100         \* the positive max_cost_total of the batch model
MaxCalls == 2             \* scoring requests of one service in the rate-limit model
MaxTime == 14             \* last second of the rate-limit model

Min(a, b) == IF a <= b THEN a ELSE b
Max(a, b) == IF a >= b THEN a ELSE b

(***************************************************************************)
(* JSON values of a scoring response.  A field is a tagged value:          *)
(*   absent - the key is missing        num  - a number (v)                *)
(*   text   - a non-numeric string      null - JSON null                   *)
(*   scalar - (component only) a value that is not an object               *)
(***************************************************************************)
Absent == [t |-> "absent", v |-> 0]
Text == [t |-> "text", v |-> 0]
Null == [t |-> "null", v |-> 0]
Scalar == [t |-> "scalar", v |-> 0]
Num(n) == [t |-> "num", v |-> n]

\* An entry of the array: obj says whether it is a JSON object; the
\* components hold the value of their 'score' key (or Scalar when the
\* component itself is not an object).
Entry(obj, cn, fs, a, q, c) ==
    [obj |-> obj, company_number |-> cn, final_score |-> fs,
     adequacao_estrategia |-> a, qualidade |-> q, capacidade_execucao |-> c]

IndexEntry(cn) == Entry(TRUE, cn, Absent, Absent, Absent, Absent)

Malformed == [kind |-> "malformed", entries |-> <<>>]
NonArray == [kind |-> "nonarray", entries |-> <<>>]
Array(es) == [kind |-> "array", entries |-> es]

SeqsUpTo(S, n) == UNION {[1..k -> S] : k \in 0..n}

(***************************************************************************)
(* Python's exceptions, as raised by the expressions of the parse loop     *)
(***************************************************************************)
NoExc == "none"

\* float(x) for the value of a score field
FloatExc(x) ==
    CASE x.t = "text" -> "ValueError"
      [] x.t = "null" -> "TypeError"
      [] OTHER -> NoExc

\* result.get(name, {}).get('score', 3) followed by float(...)
ComponentExc(x) ==
    IF x.t = "scalar" THEN "AttributeError" ELSE FloatExc(x)

ComponentValue(x) == IF x.t = "num" THEN x.v ELSE DefaultComponent

\* the first exception among a sequence of evaluations, in order
RECURSIVE FirstExc(_)
FirstExc(xs) ==
    IF xs = <<>> THEN NoExc
    ELSE IF Head(xs) # NoExc THEN Head(xs)
    ELSE FirstExc(Tail(xs))

\* result.get('company_number', rank)
CompanyNumber(e, rank) ==
    IF e.company_number.t = "absent" THEN Num(rank) ELSE e.company_number

\* 1 <= company_number <= len(candidates)
InBounds(e, rank, n) ==
    LET cn == CompanyNumber(e, rank)
    IN  cn.t = "num" /\ 1 <= cn.v /\ cn.v <= n

ComponentExcs(e) ==
    <<ComponentExc(e.adequacao_estrategia), ComponentExc(e.qualidade),
      ComponentExc(e.capacidade_execucao)>>

\* The exception one iteration of the loop raises, if any (lines 201-230).
EntryExc(e, rank, n) ==
    IF ~e.obj THEN "AttributeError"
    ELSE IF CompanyNumber(e, rank).t # "num" THEN "TypeError"
    ELSE IF ~InBounds(e, rank, n) THEN NoExc
    ELSE FirstExc(
           (IF e.final_score.t # "absent"
              THEN <<FloatExc(e.final_score)>>
              ELSE ComponentExcs(e))
           \o ComponentExcs(e))

WeightedScore(a, q, c) ==
    (a * WeightStrategic) + (q * WeightQuality) + (c * WeightExecution)

ClampUnbounded(x) == x

\* max(1.0, min(5.0, final_score))
Clamp(x) == Max(ScoreFloor, Min(ScoreCeil, x))

\* final_score before the clamp (lines 208-222)
RawScore(e) ==
    IF e.final_score.t = "num" THEN e.final_score.v
    ELSE WeightedScore(ComponentValue(e.adequacao_estrategia),
                       ComponentValue(e.qualidade),
                       ComponentValue(e.capacidade_execucao))

CompositeScore(e) == Clamp(RawScore(e))

(***************************************************************************)
(* Candidates, results and the ranker                                      *)
(***************************************************************************)
Candidate(id, sim) == [id |-> id, similarity_score |-> sim]

\* The rows find_similar_companies' query yields for an incentive with an
\* embedding: n distinct companies by ascending cosine distance, so by
\* descending similarity (in percent).
NearestOrder(n, rev) ==
    [k \in 1..n |-> Candidate(IF rev THEN n + 1 - k ELSE k, 100 - (10 * k))]

MatchingResult(company_id, score, rank, reasoning) ==
    [company_id |-> company_id, score |-> score, rank |-> rank,
     reasoning |-> reasoning]

Reasoning(err, sim, fs, a, q, c) ==
    [error |-> err, vector_similarity |-> sim, final_score |-> fs,
     strategic_fit |-> a, quality |-> q, execution_capacity |-> c]

TopSliceAll(xs, n) == xs

\* xs[:n]
TopSlice(xs, n) == SubSeq(xs, 1, Min(n, Len(xs)))

\* The MatchingResult built for an in-bounds entry (lines 204-237).
ParsedResult(e, rank, candidates) ==
    LET company == candidates[CompanyNumber(e, rank).v]
    IN  MatchingResult(company.id, CompositeScore(e), rank,
            Reasoning(FALSE, company.similarity_score, RawScore(e),
                      ComponentValue(e.adequacao_estrategia),
                      ComponentValue(e.qualidade),
                      ComponentValue(e.capacidade_execucao)))

\* for rank, result in enumerate(results_array[:top_n], 1) (lines 200-240):
\* the results appended so far and the exception that ended the loop.
RECURSIVE ParseLoop(_, _, _, _)
ParseLoop(entries, candidates, rank, acc) ==
    IF rank > Len(entries) THEN [exc |-> NoExc, results |-> acc]
    ELSE LET e == entries[rank]
             x == EntryExc(e, rank, Len(candidates))
         IN  IF x # NoExc THEN [exc |-> x, results |-> <<>>]
             ELSE IF InBounds(e, rank, Len(candidates))
               THEN ParseLoop(entries, candidates, rank + 1,
                              Append(acc, ParsedResult(e, rank, candidates)))
               ELSE ParseLoop(entries, candidates, rank + 1, acc)

\* for rank, company in enumerate(candidates[:top_n], 1) (lines 248-267)
FallbackResults(candidates, top_n) ==
    LET first == TopSlice(candidates, top_n)
    IN  [rank \in 1..Len(first) |->
            MatchingResult(first[rank].id, FallbackScore, rank,
                Reasoning(TRUE, first[rank].similarity_score, FallbackScore,
                          DefaultComponent, DefaultComponent, DefaultComponent))]

\* except (json.JSONDecodeError, ValueError, KeyError)
CaughtExceptions == {"JSONDecodeError", "ValueError", "KeyError"}

\* The try block (lines 189-243): json.loads, the isinstance test, the loop.
ParseResponse(candidates, resp, top_n) ==
    CASE resp.kind = "malformed" -> [exc |-> "JSONDecodeError", results |-> <<>>]
      [] resp.kind = "nonarray" -> [exc |-> "ValueError", results |-> <<>>]
      [] OTHER -> ParseLoop(TopSlice(resp.entries, top_n), candidates, 1, <<>>)

Returned(path, results) ==
    [status |-> "returned", path |-> path, exc |-> NoExc, results |-> results]
Raised(exc) ==
    [status |-> "raised", path |-> "none", exc |-> exc, results |-> <<>>]
NoOutcome == [status |-> "none", path |-> "none", exc |-> NoExc, results |-> <<>>]

\* _llm_rank_candidates, from the scoring response on (lines 185-269)
LlmRankCandidates(candidates, resp, top_n) ==
    LET p == ParseResponse(candidates, resp, top_n)
    IN  IF p.exc = NoExc THEN Returned("parsed", p.results)
        ELSE IF p.exc \in CaughtExceptions
          THEN Returned("fallback", FallbackResults(candidates, top_n))
          ELSE Raised(p.exc)

(***************************************************************************)
(* State                                                                   *)
(***************************************************************************)
VARIABLES
    catalog,       \* ids of the rows of the incentives table
    hasEmbedding,  \* incentives whose embedding column is not null
    nearest,       \* per incentive, the embedded companies by similarity
    request,       \* incentive id of the matching request
    response,      \* what the AI client answers a scoring request with
    outcome,       \* what match_companies_for_incentive returned or raised
    matches,       \* the rows of the matches table
    clock,         \* the database's NOW()
    nextId,        \* next value of the matches.id sequence
    pc,            \* "idle", or "saving" inside save_matches_to_database
    save,          \* the save in progress: its arguments and loop position
    lastSave,      \* the last save that ended, and the table before/after it
    prevSave,      \* the save that ended before lastSave
    runs,          \* matching requests served
    failures,      \* write errors injected
    searches,      \* find_similar_companies calls of the current request
    usage,         \* UsageMetrics of the AI client of the current service
    llm_cost,      \* the cost _llm_rank_candidates returned last
    batch,         \* the locals of batch_match_all_incentives
    phase,         \* per incentive, how far the batch got with it
    savers,        \* concurrent calls of save_matches_to_database
    time,          \* time.time(), in seconds
    clients,       \* per AI client, its last_request_time
    threads,       \* executor threads inside AIClient.complete
    issued,        \* the times at which scoring requests were sent
    prefilter,     \* a call of filter_companies_for_incentive
    tool           \* the chatbot tool get_matches_for_incentive

vars == <<catalog, hasEmbedding, nearest, request, response, outcome,
          matches, clock, nextId, pc, save, lastSave, prevSave, runs, failures,
          searches, usage, llm_cost, batch, phase, savers,
          time, clients, threads, issued, prefilter, tool>>

indexVars == <<catalog, hasEmbedding, nearest>>
storeVars == <<matches, clock, nextId, pc, save, lastSave, prevSave, runs, failures>>
costVars == <<searches, usage, llm_cost>>
batchVars == <<batch, phase>>
rateVars == <<time, clients, threads, issued>>
auxVars == <<prefilter, tool>>

NoResponse == [kind |-> "none", entries |-> <<>>]

\* a search that orders the companies by distance without looking for the
\* vector of the incentive
FindSimilarUnguarded(incentive_id, limit) == TopSlice(nearest[incentive_id], limit)

\* VectorDB.find_similar_companies
FindSimilarCompanies(incentive_id, limit) ==
    IF incentive_id \notin hasEmbedding THEN <<>>
    ELSE TopSlice(nearest[incentive_id], limit)

\* UsageMetrics of a client that has made no call
NoUsage == [total_calls |-> 0, total_cost |-> 0]

\* UsageMetrics.add_call, n times with the same cost
AddCalls(u, n, cost) ==
    [total_calls |-> u.total_calls + n, total_cost |-> u.total_cost + (n * cost)]

\* The token counts are the provider's: here one prompt token for the
\* incentive and one per candidate, one completion token per entry of the
\* answer and one for its brackets.
PromptTokens(candidates) == Len(candidates) + 1
CompletionTokens(resp) == Len(resp.entries) + 1

\* OpenAIClient._calculate_cost, in units of $0.00000001
CalculateCost(prompt_tokens, completion_tokens) ==
    (prompt_tokens * PromptPrice) + (completion_tokens * CompletionPrice)

\* what AIClient.complete returns: the content and the usage dict
Complete(candidates, resp) ==
    LET prompt_tokens == PromptTokens(candidates)
        completion_tokens == CompletionTokens(resp)
    IN  [content |-> resp,
         usage |-> [prompt_tokens |-> prompt_tokens,
                    completion_tokens |-> completion_tokens,
                    total_tokens |-> prompt_tokens + completion_tokens,
                    cost |-> CalculateCost(prompt_tokens, completion_tokens)]]

\* dict.get(key, default)
Get(dict, key, default) == IF key \in DOMAIN dict THEN dict[key] ELSE default

\* llm_cost = response_data['usage'].get('total_cost', 0.0)
LlmCost(response_data) == Get(response_data.usage, "total_cost", 0)

\* a ranker that asks for one score per candidate
ScoringRequestsPerCandidate(candidates) == Len(candidates)

\* _llm_rank_candidates: the calls of ai_client.complete it makes (one
\* prompt lists every candidate)
ScoringRequests(candidates) == 1

\* match_companies_for_incentive without the test of lines 71-73
MatchOneUnchecked(incentive_id, resp) ==
    LET similar_companies == FindSimilarCompanies(incentive_id, TopK)
    IN  IF similar_companies = <<>>
          THEN [scored |-> FALSE, outcome |-> Returned("empty", <<>>),
                searches |-> 1, requests |-> 0, cost |-> 0, llm_cost |-> 0]
          ELSE LET response_data == Complete(similar_companies, resp)
               IN  [scored |-> TRUE,
                    outcome |-> LlmRankCandidates(similar_companies, resp, TopN),
                    searches |-> 1,
                    requests |-> ScoringRequests(similar_companies),
                    cost |-> response_data.usage.cost,
                    llm_cost |-> LlmCost(response_data)]

\* a matchOne that goes on to the retrieval whether or not the incentive
\* is stored
MatchOneAnyId(incentive_id, resp) == MatchOneUnchecked(incentive_id, resp)

\* match_companies_for_incentive: whether it issued a scoring request
\* (answered by resp), its outcome, the calls of find_similar_companies and
\* of ai_client.complete it made, the cost the client computed for one call
\* and the cost the ranker returned.
MatchOne(incentive_id, resp) ==
    IF incentive_id \notin catalog
      THEN [scored |-> FALSE, outcome |-> Raised("ValueError"),
            searches |-> 0, requests |-> 0, cost |-> 0, llm_cost |-> 0]
      ELSE MatchOneUnchecked(incentive_id, resp)

(***************************************************************************)
(* Scoring responses of the ranker model                                   *)
(***************************************************************************)
CompanyNumbers == {Absent} \cup {Num(n) : n \in 0..MaxCompanyNumber}

IndexArrays == {Array(es) : es \in SeqsUpTo({IndexEntry(cn) : cn \in CompanyNumbers}, MaxEntries)}

ComponentScores == {Num(n) : n \in 0..MaxComponent}

\* entries that vary in their scores
ScoredEntries ==
    {Entry(TRUE, Absent, Absent, a, q, c) :
        a \in ComponentScores, q \in ComponentScores \cup {Absent}, c \in ComponentScores}
    \cup {Entry(TRUE, Absent, Num(fs), Num(a), Absent, Absent) :
            fs \in {0, 99, 100, 330, 500, 501, 700}, a \in {1, 5}}

\* entries of the wrong shape: one field of the wrong type
BadFields == {Text, Null}
WrongEntries ==
    {Entry(FALSE, Absent, Absent, Absent, Absent, Absent)}
    \cup {Entry(TRUE, cn, Absent, Absent, Absent, Absent) : cn \in BadFields}
    \cup {Entry(TRUE, Absent, fs, Absent, Absent, Absent) : fs \in BadFields}
    \cup {Entry(TRUE, Absent, fs, Absent, x, Absent) :
            fs \in {Absent, Num(400)}, x \in BadFields \cup {Scalar}}
    \cup {Entry(TRUE, Absent, Absent, x, Absent, y) :
            x \in BadFields \cup {Scalar}, y \in BadFields \cup {Scalar}}

\* a scored or wrong entry alone, before or after a plain entry
SpecialArrays ==
    UNION {{Array(<<e>>), Array(<<e, IndexEntry(Absent)>>),
            Array(<<IndexEntry(Num(0)), e>>)} : e \in ScoredEntries \cup WrongEntries}

RankResponses == {Malformed, NonArray} \cup IndexArrays \cup SpecialArrays

(***************************************************************************)
(* The matches table and save_matches_to_database                          *)
(***************************************************************************)
Row(id, incentive_id, company_id, score, rank_position, reasoning, created_at) ==
    [id |-> id, incentive_id |-> incentive_id, company_id |-> company_id,
     score |-> score, rank_position |-> rank_position,
     reasoning |-> reasoning, created_at |-> created_at]

\* CHECK (score >= 0 AND score <= 5), CHECK (rank_position >= 1 AND ... <= 5)
RowAllowed(score, rank_position) ==
    /\ DbScoreMin <= score /\ score <= DbScoreMax
    /\ DbRankMin <= rank_position /\ rank_position <= DbRankMax

\* the same statement without its ON CONFLICT clause taking effect
InsertOnly(rows, id, incentive_id, company_id, score, rank_position, reasoning, now) ==
    rows \cup {Row(id, incentive_id, company_id, score, rank_position, reasoning, now)}

\* INSERT INTO matches ... ON CONFLICT (incentive_id, company_id) DO UPDATE
\* SET score, rank_position, reasoning = EXCLUDED..., created_at = NOW()
Upsert(rows, id, incentive_id, company_id, score, rank_position, reasoning, now) ==
    IF \E r \in rows : r.incentive_id = incentive_id /\ r.company_id = company_id
      THEN {IF r.incentive_id = incentive_id /\ r.company_id = company_id
              THEN [r EXCEPT !.score = score, !.rank_position = rank_position,
                             !.reasoning = reasoning, !.created_at = now]
              ELSE r : r \in rows}
      ELSE rows \cup {Row(id, incentive_id, company_id, score, rank_position, reasoning, now)}

NoSave == [incentive |-> 0, results |-> <<>>, status |-> "none",
           before |-> {}, after |-> {}]

SaveEnded(status) ==
    [incentive |-> save.incentive, results |-> save.results, status |-> status,
     before |-> save.before, after |-> matches]

Idle == [incentive |-> 0, results |-> <<>>, next |-> 1, before |-> {}]

\* an empty table, no save in progress
InitStore ==
    /\ matches = {}
    /\ clock = 1
    /\ nextId = 1
    /\ pc = "idle"
    /\ save = Idle
    /\ lastSave = NoSave
    /\ prevSave = NoSave
    /\ runs = 0
    /\ failures = 0

\* a service whose AI client has not been used
InitCost ==
    /\ searches = 0
    /\ usage = NoUsage
    /\ llm_cost = 0

\* the locals of batch_match_all_incentives when no batch is running
NoBatch ==
    [pc |-> "none", incentives |-> <<>>, pos |-> 0, max_cost_total |-> Null,
     save_to_db |-> FALSE, total_cost |-> 0, successful |-> 0, failed |-> 0,
     candidates |-> <<>>, results |-> <<>>, result |-> "none"]

Pending == [i \in Incentives |-> "pending"]

(***************************************************************************)
(* CompanyPreFilter.  A text is the set of terms it contains, so that      *)
(* "keyword in text" is membership; a missing or empty text is the empty   *)
(* set.  The keyword lists are the entries the texts of the model can      *)
(* contain, lower-cased.                                                   *)
(***************************************************************************)
CompanyModel(id, cae, desc) ==
    [id |-> id, cae_primary_label |-> cae, trade_description_native |-> desc]

\* self.sector_keywords
SectorKeywords(sector) ==
    CASE sector = "energia" -> {"energy", "renewable", "solar", "wind", "energia"}
      [] sector = "tecnologia" -> {"technology", "software", "digital", "tech", "tecnologia"}
      [] OTHER -> {}

\* self.innovation_keywords, self.sustainability_keywords, self.digital_keywords
FocusKeywords(focus) ==
    CASE focus = "innovation" ->
           {"innovation", "research", "tecnologia", "technology", "digital", "startup"}
      [] focus = "sustainability" -> {"sustainable", "green", "eco", "renewable", "carbon"}
      [] focus = "digital" -> {"digital", "online", "software", "platform", "cloud"}

\* a field of the structured metadata: absent, null, a list (v) or a
\* number other than zero
Field(t, v) == [t |-> t, v |-> v]
NoField == Field("absent", {})

\* A JSON text and what json.loads makes of it: none (no text), invalid
\* (JSONDecodeError), array (a non-empty list) or object (a non-empty dict).
Metadata(kind, target_sectors, eligible_activities, key_requirements, innovation, digital) ==
    [kind |-> kind, target_sectors |-> target_sectors,
     eligible_activities |-> eligible_activities,
     key_requirements |-> key_requirements,
     innovation_focus |-> innovation, sustainability_focus |-> FALSE,
     digital_transformation_focus |-> digital]

\* a text that gives no object
Unstructured(kind) == Metadata(kind, NoField, NoField, NoField, FALSE, FALSE)

\* text is the set of words of "{title} {description}"
IncentiveModel(text, ai_description_structured, ai_description) ==
    [text |-> text, ai_description_structured |-> ai_description_structured,
     ai_description |-> ai_description]

\* _extract_keywords_from_text: the words of four letters or more (the
\* model's words all are), fewer than twenty
ExtractKeywordsFromText(text) == text

\* _extract_general_keywords: the incentive terms the text contains and the
\* sector-agnostic keywords
ExtractGeneralKeywords(incentive) ==
    (incentive.text \cap {"apoio", "incentivo", "fundo", "financiamento", "support",
                         "funding", "grant", "development", "innovation"})
    \cup {"empresa", "atividade", "projeto", "investimento"}

Criteria(exc, target_sectors, relevant_keywords, innovation, sustainability, digital) ==
    [exc |-> exc, target_sectors |-> target_sectors,
     relevant_keywords |-> relevant_keywords, innovation_focus |-> innovation,
     sustainability_focus |-> sustainability, digital_focus |-> digital]

\* structured_data.get(key, []) handed to keywords.extend: None and a
\* number are not iterable
NotIterable(field) == field.t \in {"null", "number"}

\* _extract_incentive_criteria
ExtractIncentiveCriteria(incentive) ==
    LET structured == incentive.ai_description_structured
        described == incentive.ai_description
        structured_data ==
            IF structured.kind = "object" THEN structured
            ELSE IF described.kind \in {"array", "object"} THEN described
            ELSE Unstructured("none")
        title_keywords == ExtractKeywordsFromText(incentive.text)
    IN  CASE structured_data.kind = "array" ->
               Criteria("AttributeError", NoField, {}, FALSE, FALSE, FALSE)
          [] structured_data.kind = "object" ->
               IF \/ NotIterable(structured_data.eligible_activities)
                  \/ NotIterable(structured_data.key_requirements)
                 THEN Criteria("TypeError", NoField, {}, FALSE, FALSE, FALSE)
                 ELSE Criteria(NoExc, structured_data.target_sectors,
                               structured_data.eligible_activities.v
                                  \cup structured_data.key_requirements.v
                                  \cup title_keywords,
                               structured_data.innovation_focus,
                               structured_data.sustainability_focus,
                               structured_data.digital_transformation_focus)
          [] OTHER -> Criteria(NoExc, NoField, title_keywords, FALSE, FALSE, FALSE)

\* the truth value of criteria.get('target_sectors')
FieldTruthy(field) == field.t = "number" \/ (field.t = "list" /\ field.v # {})

CompanyText(company) ==
    company.trade_description_native \cup company.cae_primary_label

\* the body of the loop of _filter_by_sector: a company with a label is kept
\* when a target sector, or a keyword of a target sector, is in its label
SectorMatch(company, target_sectors) ==
    /\ company.cae_primary_label # {}
    /\ \E sector \in target_sectors :
          \/ sector \in company.cae_primary_label
          \/ SectorKeywords(sector) \cap company.cae_primary_label # {}

\* _filter_by_sector, its argument a list of sectors
FilterBySector(companies, target_sectors) ==
    IF target_sectors = {} THEN companies
    ELSE LET Keep(company) == SectorMatch(company, target_sectors)
         IN  SelectSeq(companies, Keep)

\* the keyword stage without its shortcut for an empty keyword list
FilterByKeywordsOnly(companies, keywords) ==
    LET Keep(company) == keywords \cap company.trade_description_native # {}
    IN  SelectSeq(companies, Keep)

\* _filter_by_keywords
FilterByKeywords(companies, keywords) ==
    IF keywords = {} THEN companies
    ELSE LET Keep(company) == keywords \cap company.trade_description_native # {}
         IN  SelectSeq(companies, Keep)

\* _filter_by_focus_areas
FilterByFocusAreas(companies, focus_keywords) ==
    IF focus_keywords = {} THEN companies
    ELSE LET Keep(company) == focus_keywords \cap CompanyText(company) # {}
         IN  SelectSeq(companies, Keep)

\* The scores of _rank_and_limit_candidates are fractions with a union of
\* at most ten words as denominator, plus tenths: in units of 1/ScoreUnit
\* they are integers.
ScoreUnit == 2520

\* the score _rank_and_limit_candidates gives a company: Jaccard similarity,
\* a tenth per incentive word found, two tenths for an innovation keyword
HeuristicScore(company, incentive) ==
    LET incentive_words == incentive.text
        company_text == CompanyText(company)
        intersection == Cardinality(incentive_words \cap company_text)
        union == Cardinality(incentive_words \cup company_text)
    IN  (IF union > 0 THEN (ScoreUnit * intersection) \div union ELSE 0)
        + (ScoreUnit \div 10) * intersection
        + (IF FocusKeywords("innovation") \cap company_text # {} THEN ScoreUnit \div 5 ELSE 0)

\* list.sort(key=score, reverse=True): descending, equal scores keep their
\* order
RECURSIVE SortByScore(_, _)
SortByScore(companies, incentive) ==
    IF companies = <<>> THEN <<>>
    ELSE LET best == CHOOSE i \in DOMAIN companies :
                        /\ \A j \in DOMAIN companies :
                              HeuristicScore(companies[j], incentive)
                                 <= HeuristicScore(companies[i], incentive)
                        /\ \A j \in 1..(i - 1) :
                              HeuristicScore(companies[j], incentive)
                                 < HeuristicScore(companies[i], incentive)
             rest == SubSeq(companies, 1, best - 1)
                        \o SubSeq(companies, best + 1, Len(companies))
         IN  <<companies[best]>> \o SortByScore(rest, incentive)

\* the mis-limited ranking: the whole sorted list
RankWithoutLimit(companies, incentive, limit) == SortByScore(companies, incentive)

\* _rank_and_limit_candidates
RankAndLimitCandidates(companies, incentive, limit) ==
    TopSlice(SortByScore(companies, incentive), limit)

Range(xs) == {xs[i] : i \in DOMAIN xs}

\* random.sample(population, k): k distinct elements in any order
Samples(population, k) ==
    {s \in [1..k -> Range(population)] : \A i, j \in 1..k : s[i] = s[j] => i = j}

\* the loop of _expand_candidate_pool: the first target_count companies
\* that contain a general keyword
BroadCandidates(all_companies, incentive, target_count) ==
    LET general_keywords == ExtractGeneralKeywords(incentive)
        Broad(company) == general_keywords \cap CompanyText(company) # {}
    IN  TopSlice(SelectSeq(all_companies, Broad), target_count)

\* the expansion with no random fill
ExpandWithoutFill(all_companies, incentive, target_count) ==
    {BroadCandidates(all_companies, incentive, target_count)}

\* _expand_candidate_pool: the lists it can return
ExpandCandidatePool(all_companies, incentive, target_count) ==
    LET candidates == BroadCandidates(all_companies, incentive, target_count)
        remaining_needed == target_count - Len(candidates)
        Available(company) == company \notin Range(candidates)
        available_companies == SelectSeq(all_companies, Available)
    IN  IF Len(candidates) < target_count \div 2
          THEN IF Len(available_companies) > remaining_needed
                 THEN {candidates \o additional :
                          additional \in Samples(available_companies, remaining_needed)}
                 ELSE {candidates \o available_companies}
          ELSE {candidates}

\* one stage of the pipeline: whether it ran, what it was given, what it gave
Stage(ran, input, output) == [ran |-> ran, input |-> input, output |-> output]
Skipped(companies) == Stage(FALSE, companies, companies)

FilterRaised(exc) ==
    [status |-> "raised", exc |-> exc, sector |-> Skipped(<<>>),
     keyword |-> Skipped(<<>>), focus |-> Skipped(<<>>), limit |-> Skipped(<<>>),
     expanded |-> FALSE, result |-> <<>>]

FilterReturned(sector, keyword, focus, limit, expanded, result) ==
    [status |-> "returned", exc |-> NoExc, sector |-> sector, keyword |-> keyword,
     focus |-> focus, limit |-> limit, expanded |-> expanded, result |-> result]

\* the focus_filters list built from the flags of the criteria
FocusFilters(criteria) ==
    (IF criteria.innovation_focus THEN FocusKeywords("innovation") ELSE {})
    \cup (IF criteria.sustainability_focus THEN FocusKeywords("sustainability") ELSE {})
    \cup (IF criteria.digital_focus THEN FocusKeywords("digital") ELSE {})

\* filter_companies_for_incentive: the outcomes a call can have
FilterCompaniesForIncentive(companies, incentive, target_count) ==
    LET criteria == ExtractIncentiveCriteria(incentive)
    IN  IF criteria.exc # NoExc THEN {FilterRaised(criteria.exc)}
        ELSE IF criteria.target_sectors.t = "number" THEN {FilterRaised("TypeError")}
        ELSE
        LET sector == IF FieldTruthy(criteria.target_sectors)
                        THEN Stage(TRUE, companies,
                                   FilterBySector(companies, criteria.target_sectors.v))
                        ELSE Skipped(companies)
            keyword == IF criteria.relevant_keywords # {}
                         THEN Stage(TRUE, sector.output,
                                    FilterByKeywords(sector.output,
                                                     criteria.relevant_keywords))
                         ELSE Skipped(sector.output)
            focus == IF FocusFilters(criteria) # {}
                       THEN Stage(TRUE, keyword.output,
                                  FilterByFocusAreas(keyword.output,
                                                     FocusFilters(criteria)))
                       ELSE Skipped(keyword.output)
            limit == IF Len(focus.output) > target_count
                       THEN Stage(TRUE, focus.output,
                                  RankAndLimitCandidates(focus.output, incentive,
                                                         target_count))
                       ELSE Skipped(focus.output)
        IN  IF Len(limit.output) < target_count \div 2
              THEN {FilterReturned(sector, keyword, focus, limit, TRUE, expansion) :
                       expansion \in ExpandCandidatePool(companies, incentive,
                                                        target_count)}
              ELSE {FilterReturned(sector, keyword, focus, limit, FALSE,
                                   limit.output)}

\* no call of filter_companies_for_incentive
NoFilter == [pc |-> "idle"]

\* what get_matches_for_incentive returns: the matches it read, the message
\* "No matches found." or an error value
ToolResult(kind, rows) == [kind |-> kind, rows |-> rows]

\* The chatbot tool get_matches_for_incentive before its first call. Of its
\* latest call: the rows its first read found, the table at that read, the
\* scoring requests made and the value returned.
NoTool ==
    [pc |-> "idle", incentive_id |-> 0, calls |-> 0, found |-> {}, before |-> {},
     requests |-> 0, result |-> ToolResult("none", {})]

\* no call of the pre-filter, no call of the chatbot tool
InitAux ==
    /\ prefilter = NoFilter
    /\ tool = NoTool

\* no batch, no concurrent save, no thread inside the AI client
InitQuiet ==
    /\ batch = NoBatch
    /\ phase = Pending
    /\ savers = <<>>
    /\ time = 0
    /\ clients = <<>>
    /\ threads = <<>>
    /\ issued = <<>>

(***************************************************************************)
(* The ranker model: one matching request, its inputs drawn by Init        *)
(***************************************************************************)
InitRank ==
    /\ catalog = Incentives
    /\ hasEmbedding = {1}
    /\ \E n \in 0..MaxCand, rev \in BOOLEAN :
          nearest = [i \in Incentives |-> IF i = 1 THEN NearestOrder(n, rev) ELSE <<>>]
    /\ request \in Incentives \cup {AbsentIncentive}
    /\ response \in (IF request = 1 THEN RankResponses ELSE {Malformed})
    /\ outcome = NoOutcome
    /\ InitStore
    /\ InitCost
    /\ InitQuiet
    /\ InitAux

\* match_companies_for_incentive(request), the AI client answering with
\* response if it is asked
MatchRequest ==
    /\ outcome = NoOutcome
    /\ \E m \in {MatchOne(request, response)} :
           /\ outcome' = m.outcome
           /\ searches' = m.searches
           /\ usage' = AddCalls(NoUsage, m.requests, m.cost)
           /\ llm_cost' = m.llm_cost
    /\ UNCHANGED <<auxVars, indexVars, request, response, storeVars, batchVars, savers, rateVars>>

NextRank == MatchRequest

SpecRank == InitRank /\ [][NextRank]_vars

(***************************************************************************)
(* The store model: matching requests that save their results              *)
(***************************************************************************)
\* company numbers a scoring response refers to in the store model
StoreNumbers == {Num(1), Num(2), Num(MaxCand)}

StoreResponses ==
    {Malformed}
    \cup {Array(<<IndexEntry(a)>>) : a \in StoreNumbers}
    \cup {Array(<<IndexEntry(a), IndexEntry(b)>>) : a \in StoreNumbers, b \in StoreNumbers}

Init ==
    /\ catalog = Incentives
    /\ hasEmbedding = Incentives
    /\ nearest = [i \in Incentives |->
                    IF i = 1 THEN NearestOrder(MaxCand, FALSE) ELSE NearestOrder(2, TRUE)]
    /\ request = 0
    /\ response = NoResponse
    /\ outcome = NoOutcome
    /\ InitStore
    /\ InitCost
    /\ InitQuiet
    /\ InitAux

\* POST /matching/run (run_matching_for_incentive): matchOne, then the call
\* of save_matches_to_database with its results; an exception of matchOne
\* ends the request.
RunMatching(incentive_id, resp) ==
    /\ pc = "idle"
    /\ runs < MaxRuns
    /\ runs' = runs + 1
    /\ request' = incentive_id
    /\ \E m \in {MatchOne(incentive_id, resp)} :
          /\ response' = (IF m.scored THEN resp ELSE NoResponse)
          /\ outcome' = m.outcome
          /\ searches' = m.searches
          /\ usage' = AddCalls(NoUsage, m.requests, m.cost)
          /\ llm_cost' = m.llm_cost
          /\ IF m.outcome.status = "returned"
               THEN /\ pc' = "saving"
                    /\ save' = [incentive |-> incentive_id, results |-> m.outcome.results,
                                next |-> 1, before |-> matches]
               ELSE UNCHANGED <<pc, save>>
    /\ UNCHANGED <<auxVars, indexVars, matches, clock, nextId, lastSave, prevSave, failures,
                   batchVars, savers, rateVars>>

\* one iteration of the loop of save_matches_to_database: connection.execute
\* of the upsert for the next match, each statement its own transaction; a
\* row the CHECK constraints reject raises and ends the save.
ExecuteUpsert ==
    /\ pc = "saving"
    /\ save.next <= Len(save.results)
    /\ LET match == save.results[save.next]
       IN  IF RowAllowed(match.score, match.rank)
             THEN /\ matches' = Upsert(matches, nextId, save.incentive, match.company_id,
                                       match.score, match.rank, match.reasoning, clock)
                  /\ clock' = clock + 1
                  /\ nextId' = nextId + 1
                  /\ save' = [save EXCEPT !.next = save.next + 1]
                  /\ UNCHANGED <<pc, lastSave, prevSave>>
             ELSE /\ pc' = "idle"
                  /\ save' = Idle
                  /\ prevSave' = lastSave
                  /\ lastSave' = SaveEnded("failed")
                  /\ UNCHANGED <<matches, clock, nextId>>
    /\ UNCHANGED <<auxVars, indexVars, request, response, outcome, runs, failures,
                   costVars, batchVars, savers, rateVars>>

\* connection.execute raises (the database is unavailable): the exception
\* leaves save_matches_to_database, the statements already executed stay.
WriteError ==
    /\ pc = "saving"
    /\ save.next <= Len(save.results)
    /\ failures < MaxFailures
    /\ failures' = failures + 1
    /\ pc' = "idle"
    /\ save' = Idle
    /\ prevSave' = lastSave
    /\ lastSave' = SaveEnded("failed")
    /\ UNCHANGED <<auxVars, indexVars, request, response, outcome, matches, clock, nextId, runs,
                   costVars, batchVars, savers, rateVars>>

\* the loop is over: save_matches_to_database returns
SaveReturn ==
    /\ pc = "saving"
    /\ save.next > Len(save.results)
    /\ pc' = "idle"
    /\ save' = Idle
    /\ prevSave' = lastSave
    /\ lastSave' = SaveEnded("ok")
    /\ UNCHANGED <<auxVars, indexVars, request, response, outcome, matches, clock, nextId,
                   runs, failures, costVars, batchVars, savers, rateVars>>

Next ==
    \/ \E incentive_id \in Incentives \cup {AbsentIncentive}, resp \in StoreResponses :
          RunMatching(incentive_id, resp)
    \/ ExecuteUpsert
    \/ WriteError
    \/ SaveReturn

Spec == Init /\ [][Next]_vars

(***************************************************************************)
(* The batch model: batch_match_all_incentives over the whole catalog,     *)
(* one service and one AI client for the whole batch                       *)
(***************************************************************************)
\* max_cost_total: None, 0 or a positive ceiling
CostCeilings == {Null, Num(0), Num(MaxCeiling)}

\* the truth value Python gives an Optional[float]
Truthy(x) == x.t = "num" /\ x.v # 0

\* SELECT * FROM incentives ORDER BY id
OrderById(ids) ==
    CHOOSE s \in [1..Cardinality(ids) -> ids] :
        \A j, k \in 1..Cardinality(ids) : j < k => s[j] < s[k]

\* a batch that gives up at the first exception of an incentive
AbortBatch(pos, n) == n + 1

\* the except clause of the loop (lines 387-389): the loop goes on with the
\* next incentive
AfterException(pos, n) == pos + 1

Current == batch.incentives[batch.pos]

\* if max_cost_total and total_cost >= max_cost_total: break
CostLimitReached ==
    /\ Truthy(batch.max_cost_total)
    /\ batch.total_cost >= batch.max_cost_total.v

InitBatch ==
    /\ catalog = Incentives
    /\ hasEmbedding \in {Incentives, {1}}
    /\ nearest = [i \in Incentives |->
                    IF i = 1 THEN NearestOrder(MaxCand, FALSE) ELSE NearestOrder(2, TRUE)]
    /\ request = 0
    /\ response = NoResponse
    /\ outcome = NoOutcome
    /\ InitStore
    /\ InitCost
    /\ \E max_cost_total \in CostCeilings, save_to_db \in BOOLEAN :
          batch = [NoBatch EXCEPT !.pc = "start",
                                  !.max_cost_total = max_cost_total,
                                  !.save_to_db = save_to_db]
    /\ phase = Pending
    /\ savers = <<>>
    /\ time = 0
    /\ clients = <<>>
    /\ threads = <<>>
    /\ issued = <<>>
    /\ InitAux

\* the incentive at pos raised: it is counted as failed
ItemFailed ==
    /\ batch' = [batch EXCEPT !.failed = batch.failed + 1,
                              !.pos = AfterException(batch.pos, Len(batch.incentives)),
                              !.pc = "loop", !.candidates = <<>>, !.results = <<>>]
    /\ phase' = [phase EXCEPT ![Current] = "failed"]

\* the incentive at pos is through: successful += 1
ItemDone ==
    /\ batch' = [batch EXCEPT !.successful = batch.successful + 1,
                              !.pos = batch.pos + 1,
                              !.pc = "loop", !.candidates = <<>>, !.results = <<>>]
    /\ phase' = [phase EXCEPT ![Current] = "persisted"]

\* incentives = await self.db_service.get_all_incentives()  (line 354)
BatchList ==
    /\ batch.pc = "start"
    /\ batch' = [batch EXCEPT !.pc = "loop", !.incentives = OrderById(catalog), !.pos = 1]
    /\ UNCHANGED <<auxVars, indexVars, request, response, outcome, storeVars, costVars, phase,
                   savers, rateVars>>

\* get_all_incentives raises (the database is unavailable): line 354 is
\* outside the try, the exception leaves batch_match_all_incentives
BatchListFails ==
    /\ batch.pc = "start"
    /\ failures < MaxFailures
    /\ failures' = failures + 1
    /\ batch' = [batch EXCEPT !.pc = "done", !.result = "raised"]
    /\ UNCHANGED <<auxVars, indexVars, request, response, outcome, matches, clock, nextId, pc,
                   save, lastSave, prevSave, runs, costVars, phase, savers, rateVars>>


\* The top of the loop with an incentive left and the ceiling not reached:
\* match_companies_for_incentive starts, get_incentive_by_id and
\* find_similar_companies return (lines 70-80).
BatchRetrieve ==
    /\ batch.pc = "loop"
    /\ batch.pos <= Len(batch.incentives)
    /\ ~CostLimitReached
    /\ request' = Current
    /\ response' = NoResponse
    /\ IF Current \in catalog
         THEN /\ batch' = [batch EXCEPT !.pc = "retrieved",
                                        !.candidates = FindSimilarCompanies(Current, TopK)]
              /\ phase' = [phase EXCEPT ![Current] = "vector-retrieved"]
              /\ outcome' = NoOutcome
              /\ searches' = 1
         ELSE /\ ItemFailed
              /\ outcome' = Raised("ValueError")
              /\ searches' = 0
    /\ UNCHANGED <<auxVars, indexVars, storeVars, usage, llm_cost, savers, rateVars>>

\* get_incentive_by_id or find_similar_companies raises: caught by the
\* except clause of the loop
BatchRetrieveFails ==
    /\ batch.pc = "loop"
    /\ batch.pos <= Len(batch.incentives)
    /\ ~CostLimitReached
    /\ failures < MaxFailures
    /\ failures' = failures + 1
    /\ request' = Current
    /\ response' = NoResponse
    /\ outcome' = Raised("DatabaseError")
    /\ searches' = 0
    /\ ItemFailed
    /\ UNCHANGED <<auxVars, indexVars, matches, clock, nextId, pc, save, lastSave, prevSave, runs,
                   usage, llm_cost, savers, rateVars>>

\* The rest of match_companies_for_incentive (lines 82-101): no candidates
\* returns [], else the ranker sends its scoring request, answered by resp.
BatchRank(resp) ==
    /\ batch.pc = "retrieved"
    /\ IF batch.candidates = <<>>
         THEN /\ resp = Malformed
              /\ response' = NoResponse
              /\ outcome' = Returned("empty", <<>>)
              /\ batch' = [batch EXCEPT !.pc = "ranked", !.results = <<>>]
              /\ phase' = [phase EXCEPT ![Current] = "ranked"]
              /\ UNCHANGED <<usage, llm_cost>>
         ELSE \E m \in {MatchOneUnchecked(Current, resp)} :
                  /\ response' = resp
                  /\ outcome' = m.outcome
                  /\ usage' = AddCalls(usage, m.requests, m.cost)
                  /\ llm_cost' = m.llm_cost
                  /\ IF m.outcome.status = "raised"
                       THEN ItemFailed
                       ELSE /\ batch' = [batch EXCEPT !.pc = "ranked",
                                                      !.results = m.outcome.results]
                            /\ phase' = [phase EXCEPT ![Current] = "ranked"]
    /\ UNCHANGED <<auxVars, indexVars, request, storeVars, searches, savers, rateVars>>

\* ai_client.complete raises (the provider is unavailable): the exception
\* leaves the ranker and matchOne and is caught by the loop
BatchRankFails ==
    /\ batch.pc = "retrieved"
    /\ batch.candidates # <<>>
    /\ failures < MaxFailures
    /\ failures' = failures + 1
    /\ response' = NoResponse
    /\ outcome' = Raised("APIError")
    /\ ItemFailed
    /\ UNCHANGED <<auxVars, indexVars, request, matches, clock, nextId, pc, save, lastSave,
                   prevSave, runs, costVars, savers, rateVars>>

\* a batch that starts the save and goes on without awaiting it
BatchSaveDetached ==
    /\ batch.pc = "ranked"
    /\ IF batch.save_to_db /\ batch.results # <<>>
         THEN /\ pc' = "saving"
              /\ save' = [incentive |-> Current, results |-> batch.results,
                          next |-> 1, before |-> matches]
         ELSE UNCHANGED <<pc, save>>
    /\ ItemDone
    /\ UNCHANGED <<auxVars, indexVars, request, response, outcome, matches, clock, nextId,
                   lastSave, prevSave, runs, failures, costVars, savers, rateVars>>

\* if save_to_db and matches: await self.save_matches_to_database(...)
BatchSave ==
    /\ batch.pc = "ranked"
    /\ IF batch.save_to_db /\ batch.results # <<>>
         THEN /\ pc' = "saving"
              /\ save' = [incentive |-> Current, results |-> batch.results,
                          next |-> 1, before |-> matches]
              /\ batch' = [batch EXCEPT !.pc = "saving"]
              /\ UNCHANGED phase
         ELSE /\ ItemDone
              /\ UNCHANGED <<pc, save>>
    /\ UNCHANGED <<auxVars, indexVars, request, response, outcome, matches, clock, nextId,
                   lastSave, prevSave, runs, failures, costVars, savers, rateVars>>

\* save_matches_to_database returned or raised
BatchSaved ==
    /\ batch.pc = "saving"
    /\ pc = "idle"
    /\ IF lastSave.status = "ok" THEN ItemDone ELSE ItemFailed
    /\ UNCHANGED <<auxVars, indexVars, request, response, outcome, storeVars, costVars,
                   savers, rateVars>>

\* the loop is over (or left by the break of line 366): the summary is built
\* and returned
BatchReturn ==
    /\ batch.pc = "loop"
    /\ batch.pos > Len(batch.incentives) \/ CostLimitReached
    /\ batch' = [batch EXCEPT !.pc = "done", !.result = "summary"]
    /\ UNCHANGED <<auxVars, indexVars, request, response, outcome, storeVars, costVars, phase,
                   savers, rateVars>>

NextBatch ==
    \/ BatchList
    \/ BatchListFails
    \/ BatchRetrieve
    \/ BatchRetrieveFails
    \/ \E resp \in StoreResponses : BatchRank(resp)
    \/ BatchRankFails
    \/ BatchSave
    \/ ExecuteUpsert
    \/ WriteError
    \/ SaveReturn
    \/ BatchSaved
    \/ BatchReturn

SpecBatch == InitBatch /\ [][NextBatch]_vars

(***************************************************************************)
(* The concurrent-save model: two requests inside save_matches_to_database *)
(* at once, their statements interleaving at every await                   *)
(***************************************************************************)
Savers == {1, 2}

\* the arguments of a save: the results matchOne returned for an incentive
SaveArguments(ids) ==
    {[incentive |-> i, results |-> MatchOne(i, resp).outcome.results,
      next |-> 1, status |-> "running"] : i \in ids, resp \in StoreResponses}

InitConc ==
    /\ catalog = Incentives
    /\ hasEmbedding = Incentives
    /\ nearest = [i \in Incentives |->
                    IF i = 1 THEN NearestOrder(MaxCand, FALSE) ELSE NearestOrder(2, TRUE)]
    /\ request = 0
    /\ response = NoResponse
    /\ outcome = NoOutcome
    /\ InitStore
    /\ InitCost
    /\ batch = NoBatch
    /\ phase = Pending
    /\ \E first \in SaveArguments({1}), second \in SaveArguments(Incentives) :
          savers = [s \in Savers |-> IF s = 1 THEN first ELSE second]
    /\ time = 0
    /\ clients = <<>>
    /\ threads = <<>>
    /\ issued = <<>>
    /\ InitAux

\* one iteration of the loop of save_matches_to_database in call s: the
\* upsert is a single statement, executed atomically by the database
SaverUpsert(s) ==
    /\ savers[s].status = "running"
    /\ savers[s].next <= Len(savers[s].results)
    /\ LET match == savers[s].results[savers[s].next]
       IN  IF RowAllowed(match.score, match.rank)
             THEN /\ matches' = Upsert(matches, nextId, savers[s].incentive,
                                       match.company_id, match.score, match.rank,
                                       match.reasoning, clock)
                  /\ clock' = clock + 1
                  /\ nextId' = nextId + 1
                  /\ savers' = [savers EXCEPT ![s].next = savers[s].next + 1]
             ELSE /\ savers' = [savers EXCEPT ![s].status = "failed"]
                  /\ UNCHANGED <<matches, clock, nextId>>
    /\ UNCHANGED <<auxVars, indexVars, request, response, outcome, pc, save, lastSave, prevSave,
                   runs, failures, costVars, batchVars, rateVars>>

\* connection.execute raises in call s
SaverWriteError(s) ==
    /\ savers[s].status = "running"
    /\ savers[s].next <= Len(savers[s].results)
    /\ failures < MaxFailures
    /\ failures' = failures + 1
    /\ savers' = [savers EXCEPT ![s].status = "failed"]
    /\ UNCHANGED <<auxVars, indexVars, request, response, outcome, matches, clock, nextId, pc,
                   save, lastSave, prevSave, runs, costVars, batchVars, rateVars>>

\* the loop of call s is over
SaverReturn(s) ==
    /\ savers[s].status = "running"
    /\ savers[s].next > Len(savers[s].results)
    /\ savers' = [savers EXCEPT ![s].status = "ok"]
    /\ UNCHANGED <<auxVars, indexVars, request, response, outcome, storeVars, costVars,
                   batchVars, rateVars>>

NextConc ==
    \/ \E s \in Savers : SaverUpsert(s)
    \/ \E s \in Savers : SaverWriteError(s)
    \/ \E s \in Savers : SaverReturn(s)

SpecConc == InitConc /\ [][NextConc]_vars

(***************************************************************************)
(* The rate-limit model: two matching requests served at once, each with   *)
(* its own MatchingService and so its own AI client; every scoring request *)
(* runs AIClient.complete in an executor thread.  Time is in seconds.      *)
(***************************************************************************)
Services == {1, 2}

\* a thread that is not inside complete; failed says that its last call
\* raised
Outside == [pc |-> "outside", wake |-> 0, calls |-> 0, failed |-> FALSE]

\* time.time() is seconds since 1970 and last_request_time starts at 0.0:
\* the first request of a client is never delayed
InitRate ==
    /\ catalog = Incentives
    /\ hasEmbedding = Incentives
    /\ nearest = [i \in Incentives |->
                    IF i = 1 THEN NearestOrder(MaxCand, FALSE) ELSE NearestOrder(2, TRUE)]
    /\ request = 0
    /\ response = NoResponse
    /\ outcome = NoOutcome
    /\ InitStore
    /\ InitCost
    /\ batch = NoBatch
    /\ phase = Pending
    /\ savers = <<>>
    /\ time = RequestDelay
    /\ clients = [c \in Services |-> [request_delay |-> RequestDelay,
                                      last_request_time |-> 0]]
    /\ threads = [c \in Services |-> Outside]
    /\ issued = <<>>
    /\ InitAux

\* a limiter that does not wait
NoSleep(request_delay, time_since_last_request) == 0

\* sleep_time = self.request_delay - time_since_last_request
SleepTime(request_delay, time_since_last_request) ==
    request_delay - time_since_last_request

\* complete is entered (lines 107-114): the time since the client's last
\* request is below request_delay and the thread goes to sleep, or it is not
\* and the thread goes on
CompleteEnter(c) ==
    /\ threads[c].pc = "outside"
    /\ threads[c].calls < MaxCalls
    /\ LET current_time == time
           time_since_last_request == current_time - clients[c].last_request_time
       IN  IF time_since_last_request < clients[c].request_delay
             THEN LET sleep_time == SleepTime(clients[c].request_delay,
                                              time_since_last_request)
                  IN  threads' = [threads EXCEPT ![c].pc = "sleeping",
                                                 ![c].wake = time + sleep_time]
             ELSE threads' = [threads EXCEPT ![c].pc = "sending"]
    /\ UNCHANGED <<auxVars, indexVars, request, response, outcome, storeVars, costVars,
                   batchVars, savers, time, clients, issued>>

\* time.sleep(sleep_time) returns, not before sleep_time has passed
WakeUp(c) ==
    /\ threads[c].pc = "sleeping"
    /\ time >= threads[c].wake
    /\ threads' = [threads EXCEPT ![c].pc = "sending", ![c].wake = 0]
    /\ UNCHANGED <<auxVars, indexVars, request, response, outcome, storeVars, costVars,
                   batchVars, savers, time, clients, issued>>

\* self.last_request_time = time.time(), then the request is sent to the
\* provider (lines 134-136)
SendRequest(c) ==
    /\ threads[c].pc = "sending"
    /\ clients' = [clients EXCEPT ![c].last_request_time = time]
    /\ issued' = Append(issued, [client |-> c, at |-> time])
    /\ threads' = [threads EXCEPT ![c].pc = "waiting"]
    /\ UNCHANGED <<auxVars, indexVars, request, response, outcome, storeVars, costVars,
                   batchVars, savers, time>>

\* the provider answers and complete returns
CompleteReturn(c) ==
    /\ threads[c].pc = "waiting"
    /\ threads' = [threads EXCEPT ![c].pc = "outside", ![c].calls = threads[c].calls + 1,
                                  ![c].failed = FALSE]
    /\ UNCHANGED <<auxVars, indexVars, request, response, outcome, storeVars, costVars,
                   batchVars, savers, time, clients, issued>>

\* the request fails: the exception is logged and raised again (lines
\* 163-165), the request time stays recorded
CompleteRaises(c) ==
    /\ threads[c].pc = "waiting"
    /\ threads' = [threads EXCEPT ![c].pc = "outside", ![c].calls = threads[c].calls + 1,
                                  ![c].failed = TRUE]
    /\ UNCHANGED <<auxVars, indexVars, request, response, outcome, storeVars, costVars,
                   batchVars, savers, time, clients, issued>>

\* a second passes
Tick ==
    /\ time < MaxTime
    /\ time' = time + 1
    /\ UNCHANGED <<auxVars, indexVars, request, response, outcome, storeVars, costVars,
                   batchVars, savers, clients, threads, issued>>

NextRate ==
    \/ \E c \in Services : CompleteEnter(c)
    \/ \E c \in Services : WakeUp(c)
    \/ \E c \in Services : SendRequest(c)
    \/ \E c \in Services : CompleteReturn(c)
    \/ \E c \in Services : CompleteRaises(c)
    \/ Tick

SpecRate == InitRate /\ [][NextRate]_vars

(***************************************************************************)
(* Claims about the ranker and matchOne (checked under SpecRank)           *)
(***************************************************************************)
Results == outcome.results
Positions == DOMAIN Results

\* the matching request found at least one embedded candidate, so the
\* ranker was called with the scoring response
Ranked ==
    /\ outcome # NoOutcome
    /\ request \in catalog
    /\ request \in hasEmbedding
    /\ nearest[request] # <<>>

CandidateCount == Len(nearest[request])

\* C1: for an incentive with at least one embedded candidate and any scoring
\* response, matchOne returns at most 5 results, every rank is in 1..5 and
\* no two results share a rank.
C1_AtMostFiveDistinctRanks ==
    (Ranked /\ outcome.status = "returned") =>
        /\ Len(Results) <= 5
        /\ \A k \in Positions : Results[k].rank \in 1..5
        /\ \A j, k \in Positions : j # k => Results[j].rank # Results[k].rank

\* a response of more than 5 entries was cut to 5 results
C1_Witness ==
    /\ Ranked
    /\ outcome.path = "parsed"
    /\ Len(response.entries) > 5
    /\ Len(Results) = 5

\* C2: when the scoring response parses as a JSON array, the ranks of the
\* returned results are exactly 1..len(results) (contiguous, no gaps).
C2_RanksContiguous ==
    (Ranked /\ response.kind = "array" /\ outcome.status = "returned") =>
        \A k \in Positions : Results[k].rank = k

\* C3: no two results returned by matchOne refer to the same company id.
C3_CompaniesDistinct ==
    (Ranked /\ outcome.status = "returned") =>
        \A j, k \in Positions :
            j # k => Results[j].company_id # Results[k].company_id

WrongType(x) == x.t \in {"text", "null", "scalar"}

\* an entry that is not an object, or has a field of the wrong type
WrongShape(e) ==
    \/ ~e.obj
    \/ WrongType(e.company_number)
    \/ WrongType(e.final_score)
    \/ WrongType(e.adequacao_estrategia)
    \/ WrongType(e.qualidade)
    \/ WrongType(e.capacidade_execucao)

\* an entry without its company number or without one of its three scores
MissingFields(e) ==
    \/ e.company_number.t = "absent"
    \/ /\ e.final_score.t = "absent"
       /\ \/ e.adequacao_estrategia.t = "absent"
          \/ e.qualidade.t = "absent"
          \/ e.capacidade_execucao.t = "absent"

NotStructured(resp) ==
    \/ resp.kind \in {"malformed", "nonarray"}
    \/ \E k \in DOMAIN resp.entries : WrongShape(resp.entries[k])

ParseFailure(resp) ==
    \/ NotStructured(resp)
    \/ \E k \in DOMAIN resp.entries : MissingFields(resp.entries[k])

\* the similarity-only result set of min(N, candidateCount) results: the
\* i-th is the i-th candidate, rank i, score 3.0, error indicator set,
\* carrying that candidate's similarity
IsSimilarityFallback ==
    /\ outcome.status = "returned"
    /\ Len(Results) = (IF CandidateCount < 5 THEN CandidateCount ELSE 5)
    /\ \A k \in Positions :
          /\ Results[k].company_id = nearest[request][k].id
          /\ Results[k].rank = k
          /\ Results[k].score = 300
          /\ Results[k].reasoning.error
          /\ Results[k].reasoning.vector_similarity
                = nearest[request][k].similarity_score

\* C4: any parse failure of the scoring response (malformed JSON, wrong
\* shape, missing fields) makes the ranker return the similarity-only
\* fallback; it is never surfaced to the caller as an exception.
C4_ParseFailureFallsBack ==
    (Ranked /\ ParseFailure(response)) =>
        /\ outcome.status # "raised"
        /\ IsSimilarityFallback

\* C5: a scoring response that is not valid structured output yields exactly
\* min(N, candidateCount) results, the i-th being the i-th candidate with
\* rank i, score 3.0, an error indicator and the candidate's similarity.
C5_FallbackCorrect ==
    (Ranked /\ NotStructured(response)) => IsSimilarityFallback

\* C6: every parsed entry's composite score is its explicit final score when
\* present, else 0.40*strategic + 0.35*quality + 0.25*execution, clamped into
\* [1.0, 5.0]; components 5/3/1 without a final score give 3.30.
C6_CompositeScore ==
    (Ranked /\ outcome.path = "parsed") =>
        \A k \in Positions :
            LET e == response.entries[Results[k].rank]
                comp(x) == IF x.t = "num" THEN x.v ELSE 3
                raw == IF e.final_score.t = "num" THEN e.final_score.v
                       ELSE (40 * comp(e.adequacao_estrategia))
                            + (35 * comp(e.qualidade))
                            + (25 * comp(e.capacidade_execucao))
                score == Results[k].score
            IN  /\ score = (IF raw < 100 THEN 100 ELSE IF raw > 500 THEN 500 ELSE raw)
                /\ score >= 100 /\ score <= 500
                /\ (/\ e.final_score.t = "absent"
                    /\ e.adequacao_estrategia = Num(5)
                    /\ e.qualidade = Num(3)
                    /\ e.capacidade_execucao = Num(1)) => score = 330

\* components 5/3/1 without a final score were scored 3.30
C6_Witness ==
    /\ Ranked
    /\ outcome.path = "parsed"
    /\ \E k \in Positions :
          LET e == response.entries[Results[k].rank]
          IN  /\ e.final_score.t = "absent"
              /\ e.adequacao_estrategia = Num(5)
              /\ e.qualidade = Num(3)
              /\ e.capacidade_execucao = Num(1)
              /\ Results[k].score = 330

(***************************************************************************)
(* Claims about persist and the MatchStore (checked under Spec)            *)
(***************************************************************************)
RowsOf(rows, incentive_id) == {r \in rows : r.incentive_id = incentive_id}

\* a table with the timestamp column left out
WithoutTimestamp(rows) ==
    {[id |-> r.id, incentive_id |-> r.incentive_id, company_id |-> r.company_id,
      score |-> r.score, rank_position |-> r.rank_position,
      reasoning |-> r.reasoning] : r \in rows}

\* the last two saves both returned and had the same arguments
SavedTwice ==
    /\ lastSave.status = "ok"
    /\ prevSave.status = "ok"
    /\ lastSave.incentive = prevSave.incentive
    /\ lastSave.results = prevSave.results

\* C7: persist is idempotent: called twice with the same incentive id and
\* the same results it leaves exactly one row per (incentive, company) pair,
\* and the table after the second call equals the table after the first in
\* every field except the timestamp.
C7_PersistIdempotent ==
    SavedTwice =>
        /\ \A k \in DOMAIN lastSave.results :
              Cardinality({r \in lastSave.after :
                              /\ r.incentive_id = lastSave.incentive
                              /\ r.company_id = lastSave.results[k].company_id}) = 1
        /\ WithoutTimestamp(lastSave.after) = WithoutTimestamp(prevSave.after)

\* the same non-empty results were saved twice and the second save
\* rewrote the rows (their timestamps moved)
C7_Witness ==
    /\ SavedTwice
    /\ Len(lastSave.results) >= 2
    /\ lastSave.after # prevSave.after

\* C8: each incentive has at most 5 stored rows after any sequence of
\* matching runs (here: runs whose saves all returned, no clear in between):
\* a later run replaces the earlier results.
C8_AtMostFiveRows ==
    (pc = "idle" /\ failures = 0) =>
        \A i \in Incentives : Cardinality(RowsOf(matches, i)) <= 5

\* C9: after any sequence of persist calls (here: calls that all returned)
\* the rank positions of an incentive's stored rows are pairwise distinct
\* integers in 1..5.
C9_RanksDistinct ==
    (pc = "idle" /\ failures = 0) =>
        \A r1, r2 \in matches :
            /\ r1.rank_position \in 1..5
            /\ (r1 # r2 /\ r1.incentive_id = r2.incentive_id)
                  => r1.rank_position # r2.rank_position

\* C10: persist is all-or-nothing: when it fails part-way through its
\* results, none of that call's rows are visible afterwards.
C10_AllOrNothing ==
    lastSave.status = "failed" => lastSave.after = lastSave.before

(***************************************************************************)
(* Claims about matchAll (checked under SpecBatch)                         *)
(***************************************************************************)
Failed == {i \in Incentives : phase[i] = "failed"}
Persisted == {i \in Incentives : phase[i] = "persisted"}

\* C11: in matchAll an exception raised while processing one incentive
\* (retrieval, scoring or persistence) is caught and counted as one failed
\* incentive, every later incentive is still processed, and the batch returns
\* a summary instead of raising.
C11_FailureIsolated ==
    /\ batch.failed = Cardinality(Failed)
    /\ batch.successful = Cardinality(Persisted)
    /\ batch.result = "raised" => batch.pos = 0
    /\ (batch.pc = "done" /\ batch.pos > 0) =>
          /\ batch.result = "summary"
          /\ \A i \in catalog : phase[i] \in {"persisted", "failed"}

\* the first incentive failed, the second was still matched and saved, and
\* the batch returned its summary
C11_Witness ==
    /\ batch.pc = "done"
    /\ batch.result = "summary"
    /\ phase[1] = "failed"
    /\ phase[2] = "persisted"
    /\ batch.failed = 1
    /\ \E r \in matches : r.incentive_id = 2

\* max_cost_total is a number greater than zero
PositiveCeiling == batch.max_cost_total.t = "num" /\ batch.max_cost_total.v > 0

\* C12: matchAll with a positive aggregate cost ceiling tracks the running
\* aggregate cost as the sum of the costs of the scoring calls made so far
\* (checked at the top of the loop), starts no further incentive once that
\* sum has reached the ceiling, and returns its summary normally.
C12_CeilingStopsBatch ==
    PositiveCeiling =>
        /\ batch.pc = "loop" => batch.total_cost = usage.total_cost
        /\ batch.pc = "retrieved" => usage.total_cost < batch.max_cost_total.v
        /\ (batch.pc = "done" /\ batch.pos > 0) => batch.result = "summary"

\* C13: matchAll with a cost ceiling of 0 issues no scoring request and
\* returns successful = 0 without raising.
C13_ZeroCeilingNoScoring ==
    batch.max_cost_total = Num(0) =>
        /\ usage.total_calls = 0
        /\ batch.successful = 0
        /\ (batch.pc = "done" /\ batch.pos > 0) => batch.result = "summary"

\* the last save ended because connection.execute raised although the row
\* satisfied the constraints of the table: the store was unavailable
StorageFailedInSave ==
    /\ lastSave.status = "failed"
    /\ \A k \in DOMAIN lastSave.results :
          RowAllowed(lastSave.results[k].score, lastSave.results[k].rank)

\* C17: in batch mode a storage failure is fatal: when the store becomes
\* unavailable during matchAll, while listing the incentives or while
\* upserting an incentive's results, the failure propagates and aborts the
\* batch instead of being counted as a failed incentive.
C17_StorageFailureFatal ==
    /\ (batch.pc = "done" /\ batch.pos = 0) => batch.result = "raised"
    /\ (StorageFailedInSave /\ batch.pc \notin {"none", "saving"}) =>
          /\ batch.pc = "done"
          /\ batch.result = "raised"
          /\ batch.failed = 0

\* the steps an incentive may take in a batch
PhaseMoves ==
    {<<"pending", "vector-retrieved">>, <<"vector-retrieved", "ranked">>,
     <<"ranked", "persisted">>}
    \cup {<<p, "failed">> : p \in {"pending", "vector-retrieved", "ranked"}}

InFlight == {i \in Incentives : phase[i] \in {"vector-retrieved", "ranked"}}

\* C19: within a matchAll run every incentive moves only along pending,
\* vector-retrieved, ranked, persisted, or to failed on an exception; its
\* scoring request is issued only after its vector retrieval returned, its
\* rows are written only after its ranking returned, and an incentive is
\* started only when every incentive listed before it is persisted or
\* failed (one incentive in flight).
C19_PhaseOrder ==
    [][/\ \A i \in Incentives :
            /\ phase'[i] # phase[i] => <<phase[i], phase'[i]>> \in PhaseMoves
            /\ (phase[i] = "pending" /\ phase'[i] # "pending") =>
                  /\ i = Current
                  /\ \A k \in 1..(batch.pos - 1) :
                        phase[batch.incentives[k]] \in {"persisted", "failed"}
       /\ usage'.total_calls # usage.total_calls => phase[Current] = "vector-retrieved"
       /\ matches' # matches => phase[save.incentive] = "ranked"
       /\ Cardinality(InFlight) <= 1]_vars

\* the first incentive is persisted with its rows written, and only then
\* was the second one retrieved
C19_Witness ==
    /\ phase[1] = "persisted"
    /\ \E r \in matches : r.incentive_id = 1
    /\ phase[2] = "vector-retrieved"
    /\ batch.pos = 2

(***************************************************************************)
(* Claims about scoring requests and their cost (checked under SpecRank)   *)
(***************************************************************************)
\* C15: each ranking call issues exactly one scoring request whatever the
\* number of candidates: matchOne issues exactly one when the incentive
\* exists and has at least one candidate, and none when the incentive is
\* absent or has no candidates.
C15_OneScoringRequest ==
    outcome # NoOutcome =>
        usage.total_calls = (IF Ranked THEN 1 ELSE 0)

\* an incentive with the largest number of candidates was ranked with one
\* scoring request
C15_Witness ==
    /\ Ranked
    /\ CandidateCount = MaxCand
    /\ usage.total_calls = 1

\* C16: the cost the ranker returns equals the monetary cost the AI client
\* reported for that scoring call, on the parsed path and on the fallback
\* path, and no result is dropped or rejected because of the cost.
C16_CostReported ==
    (Ranked /\ outcome.status = "returned") =>
        /\ llm_cost = usage.total_cost
        /\ outcome = LlmRankCandidates(FindSimilarCompanies(request, TopK), response, TopN)

(***************************************************************************)
(* Claims about matching requests and the store (checked under Spec)       *)
(***************************************************************************)
\* C20: matchOne on an id that is not stored fails with ValueError before
\* any vector retrieval or scoring request, and the request leaves the
\* matches table unchanged (no save is started).
C20_AbsentIncentiveRejected ==
    [][(runs' # runs /\ request' \notin catalog) =>
          /\ outcome' = Raised("ValueError")
          /\ searches' = 0
          /\ usage'.total_calls = 0
          /\ matches' = matches
          /\ pc' = "idle"]_vars

\* a request for the absent id was rejected while the table held rows of an
\* earlier request
C20_Witness ==
    /\ request = AbsentIncentive
    /\ outcome = Raised("ValueError")
    /\ searches = 0
    /\ matches # {}
    /\ pc = "idle"

(***************************************************************************)
(* Claims about concurrent saves (checked under SpecConc)                  *)
(***************************************************************************)
\* the results call s has executed an upsert for
Written(s) == {savers[s].results[k] : k \in 1..(savers[s].next - 1)}

\* the row holds what one upsert of call s wrote for its pair
WrittenBy(r, s) ==
    /\ savers[s].incentive = r.incentive_id
    /\ \E match \in Written(s) :
          /\ match.company_id = r.company_id
          /\ match.score = r.score
          /\ match.rank = r.rank_position
          /\ match.reasoning = r.reasoning

\* C18: for any interleaving of concurrent persist calls touching the same
\* (incentive, company) pair, the table never holds two rows for the pair
\* (each upsert is one atomic insert-or-update), and once all calls have
\* finished the pair's row holds exactly the values one of the calls wrote.
C18_ConcurrentUpserts ==
    /\ \A r1, r2 \in matches :
          (r1.incentive_id = r2.incentive_id /\ r1.company_id = r2.company_id)
              => r1 = r2
    /\ (\A s \in Savers : savers[s].status # "running") =>
          \A r \in matches : \E s \in Savers : WrittenBy(r, s)

\* both calls wrote the same pair with different values, both returned, and
\* the row holds the values of the first call although the second wrote too
C18_Witness ==
    /\ \A s \in Savers : savers[s].status = "ok"
    /\ \E r \in matches :
          /\ WrittenBy(r, 1)
          /\ ~WrittenBy(r, 2)
          /\ \E match \in Written(2) :
                savers[2].incentive = r.incentive_id /\ match.company_id = r.company_id

(***************************************************************************)
(* Claims about the rate limit (checked under SpecRate)                    *)
(***************************************************************************)
\* C14: the minimum delay between scoring requests is enforced process-wide:
\* for any interleaving of concurrent callers, each with its own
\* MatchingService and AI client, any two scoring requests are issued at
\* least request_delay apart.
C14_DelayProcessWide ==
    \A j, k \in DOMAIN issued :
        j < k => issued[k].at - issued[j].at >= RequestDelay

(***************************************************************************)
(* The pre-filter model: one call of filter_companies_for_incentive, its   *)
(* arguments drawn by Init                                                 *)
(***************************************************************************)
MaxCompanies == 3
MaxTarget == 4

\* what the companies of the model say of themselves
Profiles ==
    {[cae |-> {"energia"}, desc |-> {"painel", "digital"}],
     [cae |-> {"solar"}, desc |-> {"painel"}],
     [cae |-> {}, desc |-> {"painel", "empresa"}],
     [cae |-> {"comercio"}, desc |-> {"empresa"}]}

\* lists of pairwise distinct companies: the id is the position
CompanyLists ==
    {[i \in DOMAIN p |-> CompanyModel(i, p[i].cae, p[i].desc)] :
        p \in SeqsUpTo(Profiles, MaxCompanies)}

\* ai_description_structured (None or a dict once the model is validated)
\* and ai_description (any text), as <<target_sectors, eligible_activities,
\* key_requirements, innovation_focus, digital_transformation_focus>> of an
\* object or as the kind of a text that gives none
MetadataInputs ==
    LET List(v) == Field("list", v)
        Nothing == Field("null", {})
        Number == Field("number", {})
        Object(m) == Metadata("object", m[1], m[2], m[3], m[4], m[5])
        None == Unstructured("none")
    IN  {<<None, None>>,
         <<None, Unstructured("invalid")>>,
         <<None, Unstructured("array")>>,
         <<Object(<<List({"energia"}), List({}), List({}), FALSE, FALSE>>), None>>,
         <<Object(<<Nothing, NoField, NoField, TRUE, FALSE>>), None>>,
         <<Object(<<NoField, Nothing, NoField, FALSE, FALSE>>), None>>,
         <<Object(<<Number, NoField, NoField, FALSE, FALSE>>), None>>,
         <<None, Object(<<List({"energia"}), List({"solar"}), NoField, FALSE, FALSE>>)>>,
         <<Object(<<List({}), List({"empresa"}), Number, FALSE, FALSE>>), None>>,
         <<Object(<<List({"energia"}), List({"digital"}), NoField, FALSE, TRUE>>), None>>}

IncentiveInputs ==
    {IncentiveModel(text, m[1], m[2]) :
        text \in {{}, {"painel"}, {"apoio", "painel"}}, m \in MetadataInputs}

InitFilter ==
    /\ catalog = Incentives
    /\ hasEmbedding = {}
    /\ nearest = [i \in Incentives |-> <<>>]
    /\ request = 0
    /\ response = Malformed
    /\ outcome = NoOutcome
    /\ InitStore
    /\ InitCost
    /\ InitQuiet
    /\ tool = NoTool
    /\ \E companies \in CompanyLists, incentive \in IncentiveInputs,
          target_count \in 0..MaxTarget :
          prefilter = [pc |-> "called", companies |-> companies,
                       incentive |-> incentive, target_count |-> target_count,
                       out |-> FilterRaised(NoExc)]

\* filter_companies_for_incentive(companies, incentive, target_count)
FilterCall ==
    /\ prefilter.pc = "called"
    /\ \E out \in FilterCompaniesForIncentive(prefilter.companies, prefilter.incentive,
                                              prefilter.target_count) :
          prefilter' = [prefilter EXCEPT !.pc = "done", !.out = out]
    /\ UNCHANGED <<indexVars, storeVars, costVars, batchVars, rateVars, request,
                   response, outcome, savers, tool>>

SpecFilter == InitFilter /\ [][FilterCall]_vars

FilterDone == prefilter.pc = "done"
FilterReturns == FilterDone /\ prefilter.out.status = "returned"

\* C22: filter_companies_for_incentive never raises, whatever the structured
\* metadata of the incentive: a finished call has returned a list.
C22_FilterNeverRaises == FilterDone => prefilter.out.status = "returned"

RankedTop(input, output, incentive, limit) ==
    /\ Len(output) <= limit
    /\ Len(output) = Min(limit, Len(input))
    /\ Range(output) \subseteq Range(input)
    /\ Cardinality(Range(output)) = Len(output)
    /\ \A i, j \in DOMAIN output :
          i < j => HeuristicScore(output[i], incentive)
                      >= HeuristicScore(output[j], incentive)
    /\ \A kept \in Range(output), dropped \in Range(input) \ Range(output) :
          HeuristicScore(kept, incentive) >= HeuristicScore(dropped, incentive)

\* C24: _rank_and_limit_candidates returns at most target_count companies,
\* all of them from its input, and they are the best-scored ones in
\* descending order of score - for the list the over-shoot stage was given
\* and for the whole company list of the call.
C24_RankedAndLimited ==
    /\ (FilterReturns /\ prefilter.out.limit.ran) =>
          RankedTop(prefilter.out.limit.input, prefilter.out.limit.output,
                    prefilter.incentive, prefilter.target_count)
    /\ prefilter.pc = "called" =>
          RankedTop(prefilter.companies,
                    RankAndLimitCandidates(prefilter.companies, prefilter.incentive,
                                           prefilter.target_count),
                    prefilter.incentive, prefilter.target_count)

\* the over-shoot stage ran, cut its input and changed its order
C24_Witness ==
    /\ FilterReturns
    /\ prefilter.out.limit.ran
    /\ Len(prefilter.out.limit.output) = 2
    /\ Len(prefilter.out.limit.input) = 3
    /\ prefilter.out.limit.output
          = <<prefilter.out.limit.input[3], prefilter.out.limit.input[1]>>

\* ys is xs with some of its (pairwise distinct) elements left out
SubSequence(ys, xs) ==
    LET Kept(x) == x \in Range(ys)
    IN  ys = SelectSeq(xs, Kept)

NarrowingStages == {"sector", "keyword", "focus"}

\* C25: each narrowing stage returns a sub-sequence of its input (nothing
\* new, nothing twice, nothing more), a stage that is skipped passes its
\* input on, and each stage function returns its input unchanged when its
\* criterion is empty.
C25_StagesNarrow ==
    /\ FilterReturns =>
          \A stage \in NarrowingStages :
             /\ SubSequence(prefilter.out[stage].output, prefilter.out[stage].input)
             /\ Len(prefilter.out[stage].output) <= Len(prefilter.out[stage].input)
             /\ ~prefilter.out[stage].ran =>
                   prefilter.out[stage].output = prefilter.out[stage].input
    /\ prefilter.pc \in {"called", "done"} =>
          /\ FilterBySector(prefilter.companies, {}) = prefilter.companies
          /\ FilterByKeywords(prefilter.companies, {}) = prefilter.companies
          /\ FilterByFocusAreas(prefilter.companies, {}) = prefilter.companies

\* all three stages ran, the sector stage and the keyword stage each dropped
\* a company, and a company came through
C25_Witness ==
    /\ FilterReturns
    /\ \A stage \in NarrowingStages : prefilter.out[stage].ran
    /\ Len(prefilter.out.sector.output) < Len(prefilter.out.sector.input)
    /\ Len(prefilter.out.keyword.output) < Len(prefilter.out.keyword.input)
    /\ prefilter.out.focus.output # <<>>

\* the bounds on the length of the returned list
CountBounds ==
    /\ Len(prefilter.out.result)
          >= Min(prefilter.target_count \div 2, Len(prefilter.companies))
    /\ Len(prefilter.out.result) <= prefilter.target_count

FilledUp ==
    Len(prefilter.out.result) = Min(prefilter.target_count, Len(prefilter.companies))

C21_NoVectorNoScoring ==
    \A i \in catalog \ hasEmbedding :
       /\ FindSimilarCompanies(i, TopK) = <<>>
       /\ \A resp \in {response, Malformed} :
             /\ MatchOne(i, resp).outcome = Returned("empty", <<>>)
             /\ ~MatchOne(i, resp).scored
             /\ MatchOne(i, resp).requests = 0
       /\ (batch.pc \in {"retrieved", "ranked"} /\ Current = i) =>
             batch.candidates = <<>>
       /\ (batch.pc = "ranked" /\ Current = i) =>
             /\ outcome = Returned("empty", <<>>)
             /\ response = NoResponse
             /\ batch.results = <<>>
             /\ phase[i] = "ranked"

\* the batch has ranked an incentive that has no vector while companies
\* with vectors are stored
C21_Witness ==
    /\ batch.pc = "ranked"
    /\ Current \notin hasEmbedding
    /\ nearest[Current] # <<>>
    /\ outcome = Returned("empty", <<>>)
    /\ usage = NoUsage

\* C30: every result matchOne returns, on the parsed path and on the
\* fallback path, passes the check constraints of the matches table: its
\* score lies within [0, 5] and its rank within 1..5.
C30_ResultsFitRow ==
    (Ranked /\ outcome.status = "returned") =>
        \A k \in Positions : RowAllowed(Results[k].score, Results[k].rank)

\* a parsed result at rank 2 whose score the model gave above 5 and the
\* ranker cut to 5
C30_Witness ==
    /\ Ranked
    /\ outcome.path = "parsed"
    /\ \E k \in Positions :
          /\ Results[k].rank = 2
          /\ Results[k].reasoning.final_score > DbScoreMax
          /\ Results[k].score = DbScoreMax

\* the positions in issued of the requests of client c
RequestsOf(c) == {k \in DOMAIN issued : issued[k].client = c}

\* C26: the calls of one client running one after another, any two of its
\* requests are issued at least request_delay apart, also after a request
\* that failed, and the time of the request is recorded before it is sent:
\* the recorded time is the instant of the client's latest request.
C26_DelayPerClient ==
    \A c \in Services :
       /\ \A j, k \in RequestsOf(c) :
             j < k => issued[k].at - issued[j].at >= clients[c].request_delay
       /\ \A k \in RequestsOf(c) :
             (\A j \in RequestsOf(c) : j <= k) =>
                 clients[c].last_request_time = issued[k].at

\* a client whose first request failed has slept and issued its second
\* request exactly request_delay after the first
C26_Witness ==
    \E c \in Services :
       /\ threads[c].failed
       /\ threads[c].pc = "waiting"
       /\ \E j, k \in RequestsOf(c) :
             /\ j < k
             /\ issued[k].at - issued[j].at = clients[c].request_delay

(***************************************************************************)
(* The summary of batch_match_all_incentives and its two callers           *)
(***************************************************************************)
\* summary = {...} (lines 391-398): the keys and the types of the values
SummaryOf(b) ==
    [total_incentives |-> [t |-> "int", v |-> Len(b.incentives)],
     successful_matches |-> [t |-> "int", v |-> b.successful],
     failed_matches |-> [t |-> "int", v |-> b.failed],
     total_cost |-> [t |-> "str", v |-> b.total_cost],
     avg_cost_per_incentive |-> [t |-> "str", v |-> 0],
     results_by_incentive |-> [t |-> "dict", v |-> b.successful]]

\* the fields of BatchMatchingResponse and the types pydantic takes for
\* them: a string that starts with a dollar sign is no float
BatchMatchingResponse ==
    [total_incentives |-> {"int"}, successful_matches |-> {"int"},
     failed_matches |-> {"int"}, total_cost |-> {"int", "float"},
     matches_per_incentive |-> {"dict"}]

\* ChatbotTools.generate_matches_for_all_incentives from the summary on:
\* results[key] for each key, a KeyError ending in the except clause
GenerateMatchesForAllIncentives(results) ==
    IF DOMAIN BatchMatchingResponse \subseteq DOMAIN results
      THEN [status |-> "success",
            total_incentives |-> results.total_incentives.v,
            successful_matches |-> results.successful_matches.v,
            failed_matches |-> results.failed_matches.v]
      ELSE [status |-> "error", total_incentives |-> 0, successful_matches |-> 0,
            failed_matches |-> 0]

\* POST /matching/batch from the summary on: BatchMatchingResponse(**results),
\* a validation error ending in HTTPException(500)
RunBatchMatching(results) ==
    IF \A field \in DOMAIN BatchMatchingResponse :
          /\ field \in DOMAIN results
          /\ results[field].t \in BatchMatchingResponse[field]
      THEN 200
      ELSE 500

\* C28: whenever the batch returns its summary, every field the callers read
\* is there with the expected type, the tool returns status 'success' with
\* the counts of the summary, and POST /matching/batch returns the summary.
C28_SummaryShape ==
    batch.result = "summary" =>
        /\ \A field \in DOMAIN BatchMatchingResponse :
              /\ field \in DOMAIN SummaryOf(batch)
              /\ SummaryOf(batch)[field].t \in BatchMatchingResponse[field]
        /\ GenerateMatchesForAllIncentives(SummaryOf(batch)).status = "success"
        /\ GenerateMatchesForAllIncentives(SummaryOf(batch)).total_incentives
              = Len(batch.incentives)
        /\ RunBatchMatching(SummaryOf(batch)) = 200

(***************************************************************************)
(* The chatbot tool model: calls of ChatbotTools.get_matches_for_incentive *)
(* one after another over the matches table                                *)
(***************************************************************************)
MaxToolCalls == 2

ToolEnds(result) ==
    [tool EXCEPT !.pc = "idle", !.calls = tool.calls + 1, !.result = result]

\* a tool that runs the pipeline whatever it read
ToolReadThenCompute(incentive_id) ==
    /\ tool.pc = "idle"
    /\ pc = "idle"
    /\ tool.calls < MaxToolCalls
    /\ tool' = [tool EXCEPT !.pc = "compute", !.incentive_id = incentive_id,
                            !.found = RowsOf(matches, incentive_id),
                            !.before = matches, !.requests = 0,
                            !.result = ToolResult("none", {})]
    /\ UNCHANGED <<indexVars, request, response, outcome, storeVars, costVars,
                   batchVars, savers, rateVars, prefilter>>

\* matches = await self.db_service.get_matches_for_incentive(incentive_id):
\* stored matches are formatted and returned, none starts the computation
ToolRead(incentive_id) ==
    /\ tool.pc = "idle"
    /\ pc = "idle"
    /\ tool.calls < MaxToolCalls
    /\ LET read == [tool EXCEPT !.incentive_id = incentive_id,
                                !.found = RowsOf(matches, incentive_id),
                                !.before = matches, !.requests = 0]
       IN  IF read.found = {}
             THEN tool' = [read EXCEPT !.pc = "compute",
                                       !.result = ToolResult("none", {})]
             ELSE tool' = [read EXCEPT !.calls = tool.calls + 1,
                                       !.result = ToolResult("matches", read.found)]
    /\ UNCHANGED <<indexVars, request, response, outcome, storeVars, costVars,
                   batchVars, savers, rateVars, prefilter>>

\* A new MatchingService runs match_companies_for_incentive (lines 345-351)
\* and starts save_matches_to_database (line 354); an exception of matchOne
\* is caught and returned as an error value (lines 361-367).
ToolCompute(resp) ==
    /\ tool.pc = "compute"
    /\ request' = tool.incentive_id
    /\ \E m \in {MatchOne(tool.incentive_id, resp)} :
          /\ response' = (IF m.scored THEN resp ELSE NoResponse)
          /\ outcome' = m.outcome
          /\ searches' = m.searches
          /\ usage' = AddCalls(NoUsage, m.requests, m.cost)
          /\ llm_cost' = m.llm_cost
          /\ IF m.outcome.status = "returned"
               THEN /\ pc' = "saving"
                    /\ save' = [incentive |-> tool.incentive_id,
                                results |-> m.outcome.results,
                                next |-> 1, before |-> matches]
                    /\ tool' = [tool EXCEPT !.pc = "saving", !.requests = m.requests]
               ELSE /\ tool' = ToolEnds(ToolResult("error", {}))
                    /\ UNCHANGED <<pc, save>>
    /\ UNCHANGED <<indexVars, matches, clock, nextId, lastSave, prevSave, runs, failures,
                   batchVars, savers, rateVars, prefilter>>

\* ai_client.complete raises inside the computation: caught by the inner
\* except clause
ToolComputeFails ==
    /\ tool.pc = "compute"
    /\ tool.incentive_id \in hasEmbedding
    /\ failures < MaxFailures
    /\ failures' = failures + 1
    /\ request' = tool.incentive_id
    /\ response' = NoResponse
    /\ outcome' = Raised("APIError")
    /\ tool' = ToolEnds(ToolResult("error", {}))
    /\ UNCHANGED <<indexVars, matches, clock, nextId, pc, save, lastSave, prevSave, runs,
                   costVars, batchVars, savers, rateVars, prefilter>>

\* save_matches_to_database is over: its exception is returned as an error
\* value, else the matches are read again (line 359) and returned, or the
\* message when there are none (lines 369-374)
ToolReread ==
    /\ tool.pc = "saving"
    /\ pc = "idle"
    /\ LET rows == RowsOf(matches, tool.incentive_id)
       IN  tool' = ToolEnds(IF lastSave.status = "failed" THEN ToolResult("error", {})
                            ELSE IF rows = {} THEN ToolResult("message", {})
                            ELSE ToolResult("matches", rows))
    /\ UNCHANGED <<indexVars, request, response, outcome, storeVars, costVars,
                   batchVars, savers, rateVars, prefilter>>

NextTool ==
    \/ \E incentive_id \in Incentives \cup {AbsentIncentive} : ToolRead(incentive_id)
    \/ \E resp \in StoreResponses : ToolCompute(resp)
    \/ ToolComputeFails
    \/ ExecuteUpsert
    \/ WriteError
    \/ SaveReturn
    \/ ToolReread

SpecTool == Init /\ [][NextTool]_vars

ToolReturned == tool.pc = "idle" /\ tool.calls > 0

\* C27: get_matches_for_incentive runs the pipeline only when its read of
\* the store found no match for the incentive. With stored matches it
\* returns them, makes no scoring request and leaves the store as it was;
\* with none it computes, persists and returns what it reads again; a
\* failure of the computation comes back as an error value.
C27_ComputeOnlyWhenEmpty ==
    /\ tool.pc \in {"compute", "saving"} => tool.found = {}
    /\ ToolReturned =>
          /\ tool.result.kind \in {"matches", "message", "error"}
          /\ tool.found # {} =>
                /\ tool.result = ToolResult("matches", tool.found)
                /\ tool.requests = 0
                /\ matches = tool.before
          /\ (tool.found = {} /\ tool.result.kind # "error") =>
                /\ lastSave.status = "ok"
                /\ lastSave.incentive = tool.incentive_id
                /\ lastSave.results = outcome.results
                /\ \A k \in DOMAIN outcome.results :
                      \E r \in matches :
                         /\ r.incentive_id = tool.incentive_id
                         /\ r.company_id = outcome.results[k].company_id
                /\ tool.result.rows = RowsOf(matches, tool.incentive_id)
                /\ tool.result.kind = "message" <=> tool.result.rows = {}
          /\ (tool.found = {} /\ tool.result.kind = "error") =>
                outcome.status = "raised" \/ lastSave.status = "failed"

\* the second call for an incentive finds the matches the first call
\* computed and stored, and returns them
C27_Witness ==
    /\ ToolReturned
    /\ tool.calls = 2
    /\ tool.found # {}
    /\ tool.found = RowsOf(lastSave.after, tool.incentive_id)
    /\ lastSave.status = "ok"
    /\ tool.result.kind = "matches"

====
